---- MODULE Spec2Model ----
(***************************************************************************)
(* Momentum signal engine of the Cardputer Squawk Box                      *)
(* (src/squawkbox_cardputer.ino, v9.8 section, lines 1600-3289).           *)
(*                                                                         *)
(* Numbers.  The sketch computes in 32-bit floats; here every quantity is  *)
(* an integer in a fixed unit:                                             *)
(*   prices, tradeEntryPrice, closedPnL   whole dollars                    *)
(*   emaFast, emaSlow                     1/100 dollar (see Fixed)         *)
(*   diff (velocity), chopLimit           1/1000 percent (0.010 is 10)     *)
(*   alphaFast, alphaSlow                 percent (0.22 is 22)             *)
(*   millis(), timers                     milliseconds                     *)
(* Products and quotients are truncated toward zero where the float code   *)
(* rounds to nearest.                                                      *)
(***************************************************************************)
EXTENDS Integers, Sequences, FiniteSets, TLC

\* ------------------------------------------------------------------ bounds
MaxPolls  == 5          \* fetchQuote calls in a run
MaxSessionPolls == 7     \* fetchQuote calls in a longer session
MaxRingPolls == 64      \* fetchQuote calls in a session that wraps the ring
FreePolls == 3          \* of which the first FreePolls bring any of Prices

MaxAdjusts == 2         \* chop-limit adjustments and profile switches in a run

MaxInputs == 1          \* key presses plus web requests in a run
MaxConfigInputs == 9    \* key presses plus web requests in a configuration run
\* velocities and chop limits of the classifier table: -MaxVel .. MaxVel
\* against 1 .. MaxChop
MaxVel  == 8
MaxChop == 3
\* loop() iterations are followed one by one for this long after a tone
\* sequence has started, ms
ToneHorizonMs == 1100
\* numbers of consecutive loop() iterations taken in one step
TickCounts == {19, 20}

\* quotes the price source may return
Prices == {499, 500, 503}
\* duration of one HTTPS round trip, ms (the code allows up to 5000); the
\* second set is drawn from where the claims are about exact timing
FetchLatencies == {200}
JitterLatencies == {200, 230}
\* local wall-clock time at millis() = 0, in seconds since Sunday 00:00:
\* Monday 10:00:00 and Saturday 17:00:00
BootClocks == {1 * 86400 + 10 * 3600, 6 * 86400 + 17 * 3600}
\* boot times just before the sampling interval changes: Monday 10:59:56
\* (2 s to 4 s), Monday 15:59:50 (2 s to 60 s), Friday 23:58:30 (60 s to 300 s)
PacingClocks == {1 * 86400 + 10 * 3600 + 59 * 60 + 56,
                 1 * 86400 + 15 * 3600 + 59 * 60 + 50,
                 5 * 86400 + 23 * 3600 + 58 * 60 + 30}
\* boot times around a change of the confirmation window: Monday 14:59:50
\* (10 s to 6 s), Monday 15:59:50 (6 s to 122 s), Saturday 17:00:00 (602 s)
WindowClocks == {1 * 86400 + 14 * 3600 + 59 * 60 + 50,
                 1 * 86400 + 15 * 3600 + 59 * 60 + 50,
                 6 * 86400 + 17 * 3600}

\* every minute of the week as a boot time
WeekClocks == { d * 86400 + h * 3600 + m * 60 : d \in 0 .. 6, h \in 0 .. 23, m \in 0 .. 59 }
\* chop= values of the configuration runs
ConfigChops == {0 - 5, 0, 1}
\* values of chop= requests that raise and lower the limit, 1/1000 percent
AdjustChops == {5, 60}

\* the boot time of the runs that follow the tone sequencer: Monday 10:00:00
ToneClocks == {1 * 86400 + 10 * 3600}
\* values a web chop= parameter parses to (0 also stands for unparsable text)
WebChops == {0 - 5, 0, 40}

\* --------------------------------------------------------- program constants
P_SPY_FAST == 22
P_SPY_SLOW == 10
P_SPY_CHOP == 10
P_QQQ_FAST == 25
P_QQQ_SLOW == 12
P_QQQ_CHOP == 14
P_IWM_FAST == 28
P_IWM_SLOW == 14
P_IWM_CHOP == 35
CONFIRMATION_WINDOW == 15000
DUR_BULLISH == 200
DUR_BEARISH == 1000
HISTORY_SIZE == 60
LoopDelayMs == 10

Symbols == {"SPY", "QQQ", "IWM"}

VARIABLES
    lastPrice, emaFast, emaSlow, diff, initialized,
    velocityHistory, historyHead,
    symbol, alphaFast, alphaSlow, chopLimit, isMuted,
    currentSignal, lastTriggerTime,
    currentPos, tradeEntryPrice, closedPnL, tradeCount,
    bzState, bzTimer,
    bzTones,        \* Speaker.tone() calls of updateBuzzer since bzTimer was set
    now,            \* millis()
    lastPollMs,
    bootSec,        \* wall clock at millis() = 0
    clockOk,        \* getLocalTime() succeeds (NTP has synchronised)
    lastEvent,      \* classifier event logged by the step just taken
    lastBreak,      \* the latest BULL BREAK or BEAR BREAK logged so far
    lastFire,       \* full-screen alert raised by the step just taken
    lastFetch,      \* what the step just taken did with its quote, if it polled
    polls, inputs   \* run-length counters for the bounds

vars == << lastPrice, emaFast, emaSlow, diff, initialized,
           velocityHistory, historyHead,
           symbol, alphaFast, alphaSlow, chopLimit, isMuted,
           currentSignal, lastTriggerTime,
           currentPos, tradeEntryPrice, closedPnL, tradeCount,
           bzState, bzTimer, bzTones, now, lastPollMs, bootSec, clockOk,
           lastEvent, lastBreak, lastFire, lastFetch, polls, inputs >>

\* The globals as one record, so that the functions below compose the way
\* the C++ calls do.
Eng ==
    [ lastPrice |-> lastPrice, emaFast |-> emaFast, emaSlow |-> emaSlow,
      diff |-> diff, initialized |-> initialized,
      velocityHistory |-> velocityHistory, historyHead |-> historyHead,
      symbol |-> symbol, alphaFast |-> alphaFast, alphaSlow |-> alphaSlow,
      chopLimit |-> chopLimit, isMuted |-> isMuted,
      currentSignal |-> currentSignal, lastTriggerTime |-> lastTriggerTime,
      currentPos |-> currentPos, tradeEntryPrice |-> tradeEntryPrice,
      closedPnL |-> closedPnL, tradeCount |-> tradeCount,
      bzState |-> bzState, bzTimer |-> bzTimer, bzTones |-> bzTones,
      now |-> now, lastPollMs |-> lastPollMs,
      bootSec |-> bootSec, clockOk |-> clockOk,
      lastEvent |-> "NONE", lastBreak |-> lastBreak,
      lastFire |-> "NONE", lastFetch |-> "NONE" ]

Commit(r) ==
    /\ lastPrice' = r.lastPrice /\ emaFast' = r.emaFast /\ emaSlow' = r.emaSlow
    /\ diff' = r.diff /\ initialized' = r.initialized
    /\ velocityHistory' = r.velocityHistory /\ historyHead' = r.historyHead
    /\ symbol' = r.symbol /\ alphaFast' = r.alphaFast /\ alphaSlow' = r.alphaSlow
    /\ chopLimit' = r.chopLimit /\ isMuted' = r.isMuted
    /\ currentSignal' = r.currentSignal /\ lastTriggerTime' = r.lastTriggerTime
    /\ currentPos' = r.currentPos /\ tradeEntryPrice' = r.tradeEntryPrice
    /\ closedPnL' = r.closedPnL /\ tradeCount' = r.tradeCount
    /\ bzState' = r.bzState /\ bzTimer' = r.bzTimer /\ bzTones' = r.bzTones
    /\ now' = r.now /\ lastPollMs' = r.lastPollMs
    /\ bootSec' = r.bootSec /\ clockOk' = r.clockOk
    /\ lastEvent' = r.lastEvent /\ lastBreak' = r.lastBreak
    /\ lastFire' = r.lastFire
    /\ lastFetch' = r.lastFetch

\* ------------------------------------------------------------- arithmetic
TDiv(a, b) == IF a >= 0 THEN a \div b ELSE 0 - ((0 - a) \div b)
Abs(x) == IF x < 0 THEN 0 - x ELSE x
Fixed(p) == p * 100

\* delay(ms): the loop is blocked while millis() advances
delay(s, ms) == [s EXCEPT !.now = @ + ms]

\* Slip: a SHORT is valued like a LONG.
closePosition_longOnly(s) ==
    IF s.currentPos = "POS_NONE" THEN s
    ELSE [s EXCEPT !.closedPnL = @ + (s.lastPrice - s.tradeEntryPrice),
                   !.tradeCount = @ + 1,
                   !.currentPos = "POS_NONE",
                   !.tradeEntryPrice = 0]

\* ---------------------------------------------------------- paper trading
\* Slip: the trade counter is not advanced on a close.
closePosition_noCount(s) ==
    IF s.currentPos = "POS_NONE" THEN s
    ELSE LET pnl == IF s.currentPos = "POS_LONG"
                    THEN s.lastPrice - s.tradeEntryPrice
                    ELSE s.tradeEntryPrice - s.lastPrice
         IN [s EXCEPT !.closedPnL = @ + pnl,
                      !.currentPos = "POS_NONE",
                      !.tradeEntryPrice = 0]

closePosition(s) ==
    IF s.currentPos = "POS_NONE" THEN s
    ELSE LET pnl == IF s.currentPos = "POS_LONG"
                    THEN s.lastPrice - s.tradeEntryPrice
                    ELSE s.tradeEntryPrice - s.lastPrice
         IN [s EXCEPT !.closedPnL = @ + pnl,
                      !.tradeCount = @ + 1,
                      !.currentPos = "POS_NONE",
                      !.tradeEntryPrice = 0]

\* Slip: a SHORT is overwritten by the LONG without being closed.
openLong_noClose(s) ==
    IF s.currentPos = "POS_LONG" THEN s
    ELSE [s EXCEPT !.currentPos = "POS_LONG", !.tradeEntryPrice = s.lastPrice]

openLong(s) ==
    LET c == IF s.currentPos = "POS_SHORT" THEN closePosition(s) ELSE s
    IN IF c.currentPos = "POS_NONE"
       THEN [c EXCEPT !.currentPos = "POS_LONG", !.tradeEntryPrice = c.lastPrice]
       ELSE c

\* Slip: the SHORT is entered without recording its entry price.
openShort_noEntry(s) ==
    LET c == IF s.currentPos = "POS_LONG" THEN closePosition(s) ELSE s
    IN IF c.currentPos = "POS_NONE" THEN [c EXCEPT !.currentPos = "POS_SHORT"] ELSE c

openShort(s) ==
    LET c == IF s.currentPos = "POS_LONG" THEN closePosition(s) ELSE s
    IN IF c.currentPos = "POS_NONE"
       THEN [c EXCEPT !.currentPos = "POS_SHORT", !.tradeEntryPrice = c.lastPrice]
       ELSE c

\* Slip: the switch closes the open position at the last price instead of
\* wiping the book.
resetTrades_close(s) == closePosition(s)

resetTrades(s) ==
    [s EXCEPT !.currentPos = "POS_NONE", !.tradeEntryPrice = 0,
              !.closedPnL = 0, !.tradeCount = 0]

applySymbolPreset(s, sym) ==
    IF sym = "SPY"
    THEN [s EXCEPT !.alphaFast = P_SPY_FAST, !.alphaSlow = P_SPY_SLOW, !.chopLimit = P_SPY_CHOP]
    ELSE IF sym = "QQQ"
    THEN [s EXCEPT !.alphaFast = P_QQQ_FAST, !.alphaSlow = P_QQQ_SLOW, !.chopLimit = P_QQQ_CHOP]
    ELSE IF sym = "IWM"
    THEN [s EXCEPT !.alphaFast = P_IWM_FAST, !.alphaSlow = P_IWM_SLOW, !.chopLimit = P_IWM_CHOP]
    ELSE s

\* ------------------------------------------------------------ time helpers
WallSec(s) == s.bootSec + (s.now \div 1000)
getHour(s)    == IF s.clockOk THEN (WallSec(s) % 86400) \div 3600 ELSE 12
getMinute(s)  == IF s.clockOk THEN (WallSec(s) % 3600) \div 60 ELSE 0
getWeekday(s) == IF s.clockOk THEN (WallSec(s) \div 86400) % 7 ELSE 1

\* Slip: off-hours end at 08:00 (the half-hour test is lost).
SmartInterval_eight(wd, h, m) ==
    IF wd = 0 \/ wd = 6 THEN 300
    ELSE IF h < 8 \/ h >= 16 THEN 60
    ELSE IF (h = 9 /\ m >= 30) \/ h = 10 \/ h = 15 THEN 2
    ELSE IF h = 12 THEN 10
    ELSE 4

\* Slip: the opening sprint covers the whole 09:00 hour.
SmartInterval_nine(wd, h, m) ==
    IF wd = 0 \/ wd = 6 THEN 300
    ELSE IF h < 8 \/ (h = 8 /\ m < 30) \/ h >= 16 THEN 60
    ELSE IF h = 9 \/ h = 10 \/ h = 15 THEN 2
    ELSE IF h = 12 THEN 10
    ELSE 4

SmartInterval(wd, h, m) ==
    IF wd = 0 \/ wd = 6 THEN 300
    ELSE IF h < 8 \/ (h = 8 /\ m < 30) \/ h >= 16 THEN 60
    ELSE IF (h = 9 /\ m >= 30) \/ h = 10 \/ h = 15 THEN 2
    ELSE IF h = 12 THEN 10
    ELSE 4

getSmartInterval(s) == SmartInterval(getWeekday(s), getHour(s), getMinute(s))

\* ---------------------------------------------------------- tone sequencer
\* Slip: the sequencer runs on under mute (only the Speaker calls would be
\* skipped).
updateBuzzer_advanceMuted(s) ==
    IF s.bzState = "BZ_IDLE" THEN s
    ELSE LET el == s.now - s.bzTimer
         IN IF s.bzState = "BZ_BULL"
            THEN (IF el >= DUR_BULLISH THEN [s EXCEPT !.bzState = "BZ_IDLE"] ELSE s)
            ELSE IF s.bzState = "BZ_BEAR"
            THEN (IF el >= DUR_BEARISH THEN [s EXCEPT !.bzState = "BZ_IDLE"] ELSE s)
            ELSE (IF el < 400 THEN s ELSE [s EXCEPT !.bzState = "BZ_IDLE"])

\* Slip: the second gap is missing, the tone is called on through it.
updateBuzzer_noSecondGap(s) ==
    IF s.isMuted \/ s.bzState = "BZ_IDLE" THEN s
    ELSE LET el == s.now - s.bzTimer
         IN IF s.bzState = "BZ_BULL"
            THEN LET t == IF el < 5 THEN [s EXCEPT !.bzTones = Append(@, << 1000, DUR_BULLISH >>)] ELSE s
                 IN IF el >= DUR_BULLISH THEN [t EXCEPT !.bzState = "BZ_IDLE"] ELSE t
            ELSE IF s.bzState = "BZ_BEAR"
            THEN LET t == IF el < 5 THEN [s EXCEPT !.bzTones = Append(@, << 500, DUR_BEARISH >>)] ELSE s
                 IN IF el >= DUR_BEARISH THEN [t EXCEPT !.bzState = "BZ_IDLE"] ELSE t
            ELSE IF el < 80 THEN [s EXCEPT !.bzTones = Append(@, << 1100, 80 >>)]
            ELSE IF el < 160 THEN s
            ELSE IF el < 400 THEN [s EXCEPT !.bzTones = Append(@, << 1100, 80 >>)]
            ELSE [s EXCEPT !.bzState = "BZ_IDLE"]

\* M5Cardputer.Speaker.tone(freq, dur) as called by updateBuzzer.
tone(s, freq, dur) == [s EXCEPT !.bzTones = Append(@, << freq, dur >>)]

\* One updateBuzzer() tick.  Speaker.stop() is not recorded.
updateBuzzer(s) ==
    IF s.isMuted \/ s.bzState = "BZ_IDLE" THEN s
    ELSE LET el == s.now - s.bzTimer
         IN IF s.bzState = "BZ_BULL"
            THEN LET t == IF el < 5 THEN tone(s, 1000, DUR_BULLISH) ELSE s
                 IN IF el >= DUR_BULLISH THEN [t EXCEPT !.bzState = "BZ_IDLE"] ELSE t
            ELSE IF s.bzState = "BZ_BEAR"
            THEN LET t == IF el < 5 THEN tone(s, 500, DUR_BEARISH) ELSE s
                 IN IF el >= DUR_BEARISH THEN [t EXCEPT !.bzState = "BZ_IDLE"] ELSE t
            ELSE IF el < 80 THEN tone(s, 1100, 80)
            ELSE IF el < 160 THEN s
            ELSE IF el < 240 THEN tone(s, 1100, 80)
            ELSE IF el < 320 THEN s
            ELSE IF el < 400 THEN tone(s, 1100, 80)
            ELSE [s EXCEPT !.bzState = "BZ_IDLE"]

\* bzState = bz; bzTimer = millis();
startTone(s, bz) == [s EXCEPT !.bzState = bz, !.bzTimer = s.now, !.bzTones = << >>]

\* ------------------------------------------------------ confluence engine
\* Three flashes of 280 ms on and 140 ms off, then a 3500 ms hold.
drawSignalAlert(s, label) ==
    [delay(s, 3 * (280 + 140) + 3500) EXCEPT !.lastFire = label]

\* The two-note jingle: tone, delay(180), tone; skipped when muted.
jingle(s) == IF s.isMuted THEN s ELSE delay(s, 180)

triggerBuySignal(s) ==
    [drawSignalAlert(jingle(openLong(s)), "BUY") EXCEPT !.currentSignal = "IDLE"]

triggerSellSignal(s) ==
    [drawSignalAlert(jingle(openShort(s)), "SELL") EXCEPT !.currentSignal = "IDLE"]

isLunchExit(s) == getHour(s) = 12 \/ (getHour(s) = 13 /\ getMinute(s) <= 30)

\* Slip: the window is sized by the interval in force when the BREAK armed.
dynamicWindow_atArm(s) ==
    (getSmartInterval([s EXCEPT !.now = s.lastTriggerTime]) * 1000) * 2 + 2000

\* Slip: the fixed 15 s CONFIRMATION_WINDOW of the earlier firmware.
dynamicWindow_fixed(s) == CONFIRMATION_WINDOW

dynamicWindow(s) == (getSmartInterval(s) * 1000) * 2 + 2000

\* Slip: the exit alert is raised but the position is left open.
trendEnd_noClose(s) ==
    LET a == IF s.currentPos # "POS_NONE"
             THEN startTone(jingle(drawSignalAlert(s, "EXIT")), "BZ_BEAR")
             ELSE IF isLunchExit(s)
             THEN startTone(drawSignalAlert(s, "EXIT"), "BZ_BEAR")
             ELSE s
    IN [a EXCEPT !.currentSignal = "IDLE"]

\* TREND END: close whatever is open, alert, and disarm.
trendEnd(s) ==
    LET a == IF s.currentPos # "POS_NONE"
             THEN startTone(jingle(drawSignalAlert(closePosition(s), "EXIT")), "BZ_BEAR")
             ELSE IF isLunchExit(s)
             THEN startTone(drawSignalAlert(s, "EXIT"), "BZ_BEAR")
             ELSE s
    IN [a EXCEPT !.currentSignal = "IDLE"]

\* Slip: a BREAK against the open position closes it.
armOnBreak_closeAgainst(s, alertType) ==
    IF alertType \in {"BULL BREAK", "BEAR BREAK"}
    THEN LET c == IF (alertType = "BEAR BREAK" /\ s.currentPos = "POS_LONG")
                      \/ (alertType = "BULL BREAK" /\ s.currentPos = "POS_SHORT")
                  THEN closePosition(s) ELSE s
         IN [c EXCEPT !.currentSignal = "TRIGGERED", !.lastTriggerTime = s.now]
    ELSE s

\* Slip: a BREAK outside 08:00-16:00 Monday to Friday is rejected.
armOnBreak_marketHours(s, alertType) ==
    IF alertType \in {"BULL BREAK", "BEAR BREAK"}
    THEN IF getWeekday(s) \in 1..5 /\ getHour(s) >= 8 /\ getHour(s) < 16
         THEN [s EXCEPT !.currentSignal = "TRIGGERED", !.lastTriggerTime = s.now]
         ELSE [s EXCEPT !.currentSignal = "IDLE"]
    ELSE s

\* Step 1: a BREAK arms the confirmation window.
armOnBreak(s, alertType) ==
    IF alertType \in {"BULL BREAK", "BEAR BREAK"}
    THEN [s EXCEPT !.currentSignal = "TRIGGERED", !.lastTriggerTime = s.now]
    ELSE s

\* Slip: the confirmation does not ask whether a BREAK has armed it.
confirmInWindow_unarmed(s, alertType, w) ==
    IF s.now - s.lastTriggerTime <= w
    THEN IF alertType = "BULL RUSH"
         THEN [triggerBuySignal(s) EXCEPT !.currentSignal = "IDLE"]
         ELSE IF alertType = "BEAR DUMP"
         THEN [triggerSellSignal(s) EXCEPT !.currentSignal = "IDLE"]
         ELSE s
    ELSE s

\* Slip: a confirmation leaves the signal armed.
confirmInWindow_keepArmed(s, alertType, w) ==
    IF s.currentSignal = "TRIGGERED" /\ s.now - s.lastTriggerTime <= w
    THEN IF alertType = "BULL RUSH"
         THEN [triggerBuySignal(s) EXCEPT !.currentSignal = "TRIGGERED"]
         ELSE IF alertType = "BEAR DUMP"
         THEN [triggerSellSignal(s) EXCEPT !.currentSignal = "TRIGGERED"]
         ELSE s
    ELSE s

\* Step 2: a RUSH or DUMP inside the window w fires and disarms.
confirmInWindow(s, alertType, w) ==
    IF s.currentSignal = "TRIGGERED" /\ s.now - s.lastTriggerTime <= w
    THEN IF alertType = "BULL RUSH"
         THEN [triggerBuySignal(s) EXCEPT !.currentSignal = "IDLE"]
         ELSE IF alertType = "BEAR DUMP"
         THEN [triggerSellSignal(s) EXCEPT !.currentSignal = "IDLE"]
         ELSE s
    ELSE s

\* The window has run out: discard the pending signal.
expireWindow(s, w) ==
    IF s.currentSignal = "TRIGGERED" /\ s.now - s.lastTriggerTime > w
    THEN [s EXCEPT !.currentSignal = "IDLE"]
    ELSE s

updateSignalLogic(s, alertType) ==
    IF alertType = "TREND END" THEN trendEnd(s)
    ELSE LET a == armOnBreak(s, alertType)
             w == dynamicWindow(a)
         IN expireWindow(confirmInWindow(a, alertType, w), w)

\* ----------------------------------------------------------- market engine
alert(s, bz, type) ==
    updateSignalLogic([startTone(s, bz) EXCEPT
                          !.lastEvent = type,
                          !.lastBreak = IF type \in {"BULL BREAK", "BEAR BREAK"}
                                        THEN type ELSE @],
                      type)

\* Slip: the first sample seeds the EMAs but keeps the old velocity.
seedEngine_keepDiff(s, p) ==
    [s EXCEPT !.lastPrice = p, !.emaFast = Fixed(p), !.emaSlow = Fixed(p),
              !.initialized = TRUE]

\* The first price after (re)initialisation seeds both EMAs.
seedEngine(s, p) ==
    [s EXCEPT !.lastPrice = p, !.emaFast = Fixed(p), !.emaSlow = Fixed(p),
              !.diff = 0, !.initialized = TRUE]

\* Slip: any rise of an already bullish velocity counts as a RUSH (the 20 %
\* acceleration test is lost), and likewise any fall as a DUMP.
classify_anyRise(prevDiff, d, c) ==
    IF Abs(d) > c
    THEN IF d > 0
         THEN IF prevDiff <= c THEN "BULL BREAK"
              ELSE IF d > prevDiff THEN "BULL RUSH"
              ELSE "NONE"
         ELSE IF prevDiff >= 0 - c THEN "BEAR BREAK"
              ELSE IF d < prevDiff THEN "BEAR DUMP"
              ELSE "NONE"
    ELSE IF Abs(prevDiff) > c THEN "TREND END"
    ELSE "NONE"

\* Alert detection: the event, if any, of a velocity d that follows prevDiff
\* under the chop limit c.  diff > prevDiff * 1.20 is 5 * d > 6 * prevDiff.
classify(prevDiff, d, c) ==
    IF Abs(d) > c
    THEN IF d > 0
         THEN IF prevDiff <= c THEN "BULL BREAK"
              ELSE IF 5 * d > 6 * prevDiff THEN "BULL RUSH"
              ELSE "NONE"
         ELSE IF prevDiff >= 0 - c THEN "BEAR BREAK"
              ELSE IF 5 * d < 6 * prevDiff THEN "BEAR DUMP"
              ELSE "NONE"
    ELSE IF Abs(prevDiff) > c THEN "TREND END"
    ELSE "NONE"

\* The tone sequence each event starts.
toneOf(type) ==
    IF type \in {"BULL BREAK", "TREND END"} THEN "BZ_BULL"
    ELSE IF type = "BEAR BREAK" THEN "BZ_BEAR"
    ELSE "BZ_STUTTER"

\* Slip: the window is also checked on samples that raise no event.
processPrice_expireAlways(s, p) ==
    IF ~s.initialized
    THEN seedEngine(s, p)
    ELSE LET prevDiff == s.diff
             f == TDiv(Fixed(p) * s.alphaFast + s.emaFast * (100 - s.alphaFast), 100)
             l == TDiv(Fixed(p) * s.alphaSlow + s.emaSlow * (100 - s.alphaSlow), 100)
             d == TDiv((f - l) * 1000, p)
             u == [s EXCEPT !.lastPrice = p, !.emaFast = f, !.emaSlow = l, !.diff = d,
                            !.velocityHistory[s.historyHead] = d,
                            !.historyHead = (s.historyHead + 1) % HISTORY_SIZE]
             type == classify(prevDiff, d, u.chopLimit)
         IN IF type = "NONE" THEN expireWindow(u, dynamicWindow(u))
            ELSE alert(u, toneOf(type), type)

\* Slip: the cursor wraps one entry early, so the last entry of the ring is
\* never written.
processPrice_shortRing(s, p) ==
    IF ~s.initialized
    THEN seedEngine(s, p)
    ELSE LET prevDiff == s.diff
             f == TDiv(Fixed(p) * s.alphaFast + s.emaFast * (100 - s.alphaFast), 100)
             l == TDiv(Fixed(p) * s.alphaSlow + s.emaSlow * (100 - s.alphaSlow), 100)
             d == TDiv((f - l) * 1000, p)
             u == [s EXCEPT !.lastPrice = p, !.emaFast = f, !.emaSlow = l, !.diff = d,
                            !.velocityHistory[s.historyHead] = d,
                            !.historyHead = (s.historyHead + 1) % (HISTORY_SIZE - 1)]
             type == classify(prevDiff, d, u.chopLimit)
         IN IF type = "NONE" THEN u ELSE alert(u, toneOf(type), type)

processPrice(s, p) ==
    IF ~s.initialized
    THEN seedEngine(s, p)
    ELSE LET prevDiff == s.diff
             f == TDiv(Fixed(p) * s.alphaFast + s.emaFast * (100 - s.alphaFast), 100)
             l == TDiv(Fixed(p) * s.alphaSlow + s.emaSlow * (100 - s.alphaSlow), 100)
             d == TDiv((f - l) * 1000, p)
             u == [s EXCEPT !.lastPrice = p, !.emaFast = f, !.emaSlow = l, !.diff = d,
                            !.velocityHistory[s.historyHead] = d,
                            !.historyHead = (s.historyHead + 1) % HISTORY_SIZE]
             type == classify(prevDiff, d, u.chopLimit)
         IN IF type = "NONE" THEN u ELSE alert(u, toneOf(type), type)

\* ------------------------------------------------------------ state badge
\* Slip: a velocity exactly at the chop limit is shown as a trend.
trendStr_open(d, c) ==
    IF d >= c THEN "BULL" ELSE IF d <= 0 - c THEN "BEAR" ELSE "CHOP"

\* The label of the state badge for velocity d under chop limit c.
trendStr(d, c) ==
    IF d > c THEN "BULL" ELSE IF d < 0 - c THEN "BEAR" ELSE "CHOP"

\* What drawVelocityZone() puts in the badge.
drawVelocityZone(s) == trendStr(s.diff, s.chopLimit)

\* The "history" array of the JSON document: HISTORY_SIZE entries read from
\* historyHead on, wrapping.
historyJSON(s) ==
    [i \in 1 .. HISTORY_SIZE |-> s.velocityHistory[(s.historyHead + i - 1) % HISTORY_SIZE]]

\* -------------------------------------------------------------- quote fetch
\* r.status: "nowifi", "http" (status other than 200), "badjson" or "ok";
\* r.price: the parsed "c" field; lat: duration of the HTTP exchange.
FetchResults ==
    [status : {"nowifi", "http", "badjson"}, price : {0}]
        \cup [status : {"ok"}, price : Prices \cup {0}]

\* Slip: a failed fetch marks the engine for re-seeding.
fetchQuote_reseed(s, r, lat) ==
    IF r.status = "nowifi" THEN [s EXCEPT !.lastFetch = "DROPPED", !.initialized = FALSE]
    ELSE LET g == delay(s, lat)
         IN IF r.status = "ok" /\ r.price > 0
            THEN processPrice([g EXCEPT !.lastFetch = "SAMPLE"], r.price)
            ELSE [g EXCEPT !.lastFetch = "DROPPED", !.initialized = FALSE]

\* lastFetch records whether the quote reached processPrice ("SAMPLE") or
\* was dropped ("DROPPED").
fetchQuote(s, r, lat) ==
    IF r.status = "nowifi" THEN [s EXCEPT !.lastFetch = "DROPPED"]
    ELSE LET g == delay(s, lat)
         IN IF r.status = "ok" /\ r.price > 0
            THEN processPrice([g EXCEPT !.lastFetch = "SAMPLE"], r.price)
            ELSE [g EXCEPT !.lastFetch = "DROPPED"]

\* ----------------------------------------------------------------- inputs
switchSymbol(s, sym) ==
    resetTrades([applySymbolPreset([s EXCEPT !.symbol = sym], sym)
                    EXCEPT !.initialized = FALSE])

\* Slip: '-' lowers the chop limit without the floor test.
handleKeyboard_noFloor(s, key) ==
    IF key = "1" THEN switchSymbol(s, "SPY")
    ELSE IF key = "2" THEN switchSymbol(s, "QQQ")
    ELSE IF key = "3" THEN switchSymbol(s, "IWM")
    ELSE IF key = "+" THEN [s EXCEPT !.chopLimit = @ + 1]
    ELSE IF key = "-" THEN [s EXCEPT !.chopLimit = @ - 1]
    ELSE IF key = "m" THEN [s EXCEPT !.isMuted = ~@]
    ELSE IF key = "t" THEN startTone(s, "BZ_BULL")
    ELSE IF key = "y" THEN startTone(s, "BZ_BEAR")
    ELSE s

\* One pressed key of handleKeyboard's loop over status.word.  The keys that
\* touch only the display, the volume or the captive portal are left out.
Keys == {"2", "+", "-", "m"}

handleKeyboard(s, key) ==
    IF key = "1" THEN switchSymbol(s, "SPY")
    ELSE IF key = "2" THEN switchSymbol(s, "QQQ")
    ELSE IF key = "3" THEN switchSymbol(s, "IWM")
    ELSE IF key = "+" THEN [s EXCEPT !.chopLimit = @ + 1]
    ELSE IF key = "-" THEN (IF s.chopLimit > 2 THEN [s EXCEPT !.chopLimit = @ - 1] ELSE s)
    ELSE IF key = "m" THEN [s EXCEPT !.isMuted = ~@]
    ELSE IF key = "t" THEN startTone(s, "BZ_BULL")
    ELSE IF key = "y" THEN startTone(s, "BZ_BEAR")
    ELSE s

\* A request line of the dashboard: which command parameters occur in it.
\* chop holds the value toFloat() yields for the text after "chop=", and is
\* empty when the parameter is absent.
NoChop == {}

Req(syms, mute1, mute0, chop, tests) ==
    [data |-> FALSE, syms |-> syms, mute1 |-> mute1, mute0 |-> mute0,
     chop |-> chop, tests |-> tests]

WebRequests ==
    { [Req({}, FALSE, FALSE, NoChop, {}) EXCEPT !.data = TRUE],
      Req({"IWM"}, FALSE, FALSE, NoChop, {}) }
        \cup { Req({}, FALSE, FALSE, {c}, {}) : c \in WebChops }

handleWebTraffic(s, req) ==
    IF req.data THEN delay(s, 5)
    ELSE LET a == IF "SPY" \in req.syms THEN switchSymbol(s, "SPY") ELSE s
             b == IF "QQQ" \in req.syms THEN switchSymbol(a, "QQQ") ELSE a
             c == IF "IWM" \in req.syms THEN switchSymbol(b, "IWM") ELSE b
             d == IF req.mute1 THEN [c EXCEPT !.isMuted = TRUE] ELSE c
             e == IF req.mute0 THEN [d EXCEPT !.isMuted = FALSE] ELSE d
             f == IF \E nc \in req.chop : nc > 0
                  THEN [e EXCEPT !.chopLimit = CHOOSE nc \in req.chop : nc > 0]
                  ELSE e
             g == IF "bull" \in req.tests THEN startTone(f, "BZ_BULL") ELSE f
             h == IF "bear" \in req.tests THEN startTone(g, "BZ_BEAR") ELSE g
         IN delay(h, 5)

\* -------------------------------------------------------------- main loop
\* Slip: the elapsed time is taken from boot, not from the last poll.
PollDue_sinceBoot(s) == s.now > getSmartInterval(s) * 1000

PollDue(s) == s.now - s.lastPollMs > getSmartInterval(s) * 1000

\* The iteration of loop() in which the poll is due: updateBuzzer, then the
\* fetch, then delay(10).
loopPoll(s, r, lat) ==
    delay(fetchQuote([updateBuzzer(s) EXCEPT !.lastPollMs = s.now], r, lat),
          LoopDelayMs)

\* Iterations of loop() that find no input and no poll due, from the one
\* that starts at s.now until millis() reaches until: updateBuzzer, then
\* delay(10).  Once the sequencer is idle or muted only the time passes.
RECURSIVE loopTicks(_, _)
loopTicks(s, until) ==
    IF s.now >= until \/ s.isMuted \/ s.bzState = "BZ_IDLE"
    THEN [s EXCEPT !.now = until]
    ELSE loopTicks(delay(updateBuzzer(s), LoopDelayMs), until)

\* The iterations of loop() that find no input and no poll due, up to the
\* start of the first iteration after the current interval has passed.
loopIdle(s) ==
    loopTicks(s, s.lastPollMs + getSmartInterval(s) * 1000 + LoopDelayMs)

\* n iterations of loop() with no input and no poll due: updateBuzzer, then
\* delay(10), n times.
RECURSIVE loopTick(_, _)
loopTick(s, n) ==
    IF n = 0 THEN s ELSE loopTick(delay(updateBuzzer(s), LoopDelayMs), n - 1)

InitEngine ==
    /\ lastPrice = 0 /\ emaFast = 0 /\ emaSlow = 0 /\ diff = 0
    /\ initialized = FALSE
    /\ velocityHistory = [i \in 0 .. HISTORY_SIZE - 1 |-> 0] /\ historyHead = 0
    /\ symbol = "SPY"
    /\ alphaFast = P_SPY_FAST /\ alphaSlow = P_SPY_SLOW /\ chopLimit = P_SPY_CHOP
    /\ isMuted = FALSE
    /\ currentSignal = "IDLE" /\ lastTriggerTime = 0
    /\ currentPos = "POS_NONE" /\ tradeEntryPrice = 0
    /\ closedPnL = 0 /\ tradeCount = 0
    /\ bzState = "BZ_IDLE" /\ bzTimer = 0 /\ bzTones = << >>
    /\ now = 150 + 2500
    /\ lastPollMs = 0
    /\ lastEvent = "NONE" /\ lastBreak = "NONE"
    /\ lastFire = "NONE" /\ lastFetch = "NONE"
    /\ polls = 0 /\ inputs = 0

\* The wall clock: synchronised by NTP, or not (getLocalTime fails).
Init ==
    /\ InitEngine
    /\ \/ bootSec \in BootClocks /\ clockOk = TRUE
       \/ bootSec = 0 /\ clockOk = FALSE

PollFrom(results, lats) ==
    /\ polls < MaxPolls
    /\ PollDue(Eng)
    /\ \E r \in results, lat \in lats : Commit(loopPoll(Eng, r, lat))
    /\ polls' = polls + 1
    /\ UNCHANGED inputs

PollWith(lats) == PollFrom(FetchResults, lats)

Poll == PollWith(FetchLatencies)

PollJitter == PollWith(JitterLatencies)

Idle ==
    /\ ~PollDue(Eng)
    /\ Commit(loopIdle(Eng))
    /\ UNCHANGED << polls, inputs >>

KeyPress ==
    /\ inputs < MaxInputs
    /\ \E key \in Keys : Commit(handleKeyboard(Eng, key))
    /\ inputs' = inputs + 1
    /\ UNCHANGED polls

WebRequest ==
    /\ inputs < MaxInputs
    /\ \E req \in WebRequests : Commit(handleWebTraffic(Eng, req))
    /\ inputs' = inputs + 1
    /\ UNCHANGED polls

Next == Poll \/ Idle \/ KeyPress \/ WebRequest

Spec == Init /\ [][Next]_vars

\* The tone sequencer followed tick by tick while a sequence is pending.
Tick ==
    /\ bzState # "BZ_IDLE" /\ now - bzTimer < ToneHorizonMs
    /\ \E n \in TickCounts :
          /\ ~PollDue(Eng)
          /\ ~PollDue(delay(Eng, (n - 1) * LoopDelayMs))
          /\ Commit(loopTick(Eng, n))
    /\ UNCHANGED << polls, inputs >>

\* Keys that act on the sequencer: mute toggle, test tones.
ToneKeys == {"m", "t", "y"}

ToneKey ==
    /\ inputs < MaxInputs
    /\ \E key \in ToneKeys : Commit(handleKeyboard(Eng, key))
    /\ inputs' = inputs + 1
    /\ UNCHANGED polls

\* Polls that bring a quote.
PollQuote == PollFrom([status : {"ok"}, price : Prices], FetchLatencies)

NextTone == PollQuote \/ Idle \/ Tick \/ ToneKey

InitTone == InitEngine /\ bootSec \in ToneClocks /\ clockOk = TRUE

SpecTone == InitTone /\ [][NextTone]_vars

\* The engine left alone by the user (fetch latency with jitter), booted
\* shortly before the sampling interval changes.
NextPacing == PollJitter \/ Idle

InitPacing == InitEngine /\ bootSec \in PacingClocks /\ clockOk = TRUE

SpecPacing == InitPacing /\ [][NextPacing]_vars

\* The loop without WiFi association, booted at any minute of the week: each
\* iteration evaluates getSmartInterval() and every due poll returns at once.
PollNoWifi == PollFrom({[status |-> "nowifi", price |-> 0]}, FetchLatencies)

NextClock == PollNoWifi \/ Idle

InitClock ==
    /\ InitEngine
    /\ \/ bootSec \in WeekClocks /\ clockOk = TRUE
       \/ bootSec = 0 /\ clockOk = FALSE

SpecClock == InitClock /\ [][NextClock]_vars

\* The settings worked on from the keyboard and the dashboard, the engine
\* never polling (no WiFi association yet): profile keys, '+' and '-', and
\* requests with sym=SPY or chop=.
ConfigKeys == {"2", "3", "+", "-"}

ConfigRequests ==
    { Req({"SPY"}, FALSE, FALSE, NoChop, {}) }
        \cup { Req({}, FALSE, FALSE, {c}, {}) : c \in ConfigChops }

ConfigKey ==
    /\ inputs < MaxConfigInputs
    /\ \E key \in ConfigKeys : Commit(handleKeyboard(Eng, key))
    /\ inputs' = inputs + 1
    /\ UNCHANGED polls

ConfigWeb ==
    /\ inputs < MaxConfigInputs
    /\ \E req \in ConfigRequests : Commit(handleWebTraffic(Eng, req))
    /\ inputs' = inputs + 1
    /\ UNCHANGED polls

NextConfig == ConfigKey \/ ConfigWeb

SpecConfig == Init /\ [][NextConfig]_vars

\* The engine left alone by the user, with jitter in the fetch latency.
NextTiming == PollJitter \/ Idle

SpecTiming == Init /\ [][NextTiming]_vars

\* A longer session on a live feed: every poll brings a quote, and the user
\* switches the symbol at most MaxInputs times.
PollSession ==
    /\ polls < MaxSessionPolls
    /\ PollDue(Eng)
    /\ \E p \in Prices : Commit(loopPoll(Eng, [status |-> "ok", price |-> p], 200))
    /\ polls' = polls + 1
    /\ UNCHANGED inputs

SessionKeys == {"1", "2"}

SessionKey ==
    /\ inputs < MaxInputs
    /\ \E key \in SessionKeys : Commit(handleKeyboard(Eng, key))
    /\ inputs' = inputs + 1
    /\ UNCHANGED polls

NextSession == PollSession \/ Idle \/ SessionKey

InitSession == InitEngine /\ bootSec \in ToneClocks /\ clockOk = TRUE

SpecSession == InitSession /\ [][NextSession]_vars

\* A session long enough for the velocity ring to wrap: the first FreePolls
\* quotes are any of Prices, the later ones follow Feed.
Feed(k) == IF k < FreePolls THEN Prices ELSE {500 + ((k * k) % 7)}

PollFeed ==
    /\ polls < MaxRingPolls
    /\ PollDue(Eng)
    /\ \E p \in Feed(polls) : Commit(loopPoll(Eng, [status |-> "ok", price |-> p], 200))
    /\ polls' = polls + 1
    /\ UNCHANGED inputs

NextRing == PollFeed \/ Idle

InitRing == InitEngine /\ bootSec \in ToneClocks /\ clockOk = TRUE

SpecRing == InitRing /\ [][NextRing]_vars

\* The chop limit worked on while the feed runs: '+' and '-', chop= requests
\* and the QQQ profile key, at most MaxAdjusts times between the quotes.
AdjustKeys == {"+", "-", "2"}

AdjustRequests == { Req({}, FALSE, FALSE, {c}, {}) : c \in AdjustChops }

AdjustKey ==
    /\ inputs < MaxAdjusts
    /\ \E key \in AdjustKeys : Commit(handleKeyboard(Eng, key))
    /\ inputs' = inputs + 1
    /\ UNCHANGED polls

AdjustWeb ==
    /\ inputs < MaxAdjusts
    /\ \E req \in AdjustRequests : Commit(handleWebTraffic(Eng, req))
    /\ inputs' = inputs + 1
    /\ UNCHANGED polls

NextAdjust == PollQuote \/ Idle \/ AdjustKey \/ AdjustWeb

InitAdjust == InitEngine /\ bootSec \in ToneClocks /\ clockOk = TRUE

SpecAdjust == InitAdjust /\ [][NextAdjust]_vars

\* The engine left alone by the user, booted shortly before the sampling
\* interval changes or at the weekend.
NextWindow == PollJitter \/ Idle

InitWindow == InitEngine /\ bootSec \in WindowClocks /\ clockOk = TRUE

SpecWindow == InitWindow /\ [][NextWindow]_vars

\* ================================================================ properties
Breaks == {"BULL BREAK", "BEAR BREAK"}
Rushes == {"BULL RUSH", "BEAR DUMP"}
Fires  == {"BUY", "SELL"}

\* For a BREAK, RUSH or DUMP, bzTimer holds the millis() read when the event
\* was detected (processPrice stamps it just before updateSignalLogic runs).
\* The window as the specification words it, for an event detected at t.
ClaimWindow(t) == (2 * getSmartInterval([Eng EXCEPT !.now = t]) + 2) * 1000

MarketHours(t) ==
    LET e == [Eng EXCEPT !.now = t]
    IN getWeekday(e) \in 1..5 /\ getHour(e) >= 8 /\ getHour(e) < 16

book == << currentPos, tradeEntryPrice, closedPnL, tradeCount >>

\* A step that switches the active symbol (keys 1/2/3, web sym=).
SwitchStep == (initialized /\ ~initialized') \/ symbol' # symbol

C2_SingleShot ==
    [][ /\ lastFire' \in Fires => currentSignal' = "IDLE"
        /\ (currentSignal = "IDLE" /\ lastEvent' \in Rushes) =>
              lastFire' = "NONE" /\ currentSignal' = "IDLE" /\ UNCHANGED book
        /\ (currentSignal = "IDLE" /\ currentSignal' = "TRIGGERED") => lastEvent' \in Breaks
      ]_vars

\* The fourth poll is a second RUSH or DUMP, right after the one that opened
\* the position, and it has fired nothing.
C2_Witness ==
    polls = 4 /\ lastEvent \in Rushes /\ lastFire = "NONE" /\ currentPos # "POS_NONE"

C4_Claim ==
    currentSignal = "TRIGGERED" => now - lastTriggerTime <= ClaimWindow(now)

\* C5 (as worded): a BREAK outside 08:00-16:00 Monday to Friday leaves the
\* signal IDLE.
C5_Original ==
    (lastEvent \in Breaks /\ ~MarketHours(bzTimer)) => currentSignal = "IDLE"

\* C5 (amended): a BREAK arms TRIGGERED and stamps the trigger time whatever
\* the local time and weekday.
C5_BreakArms ==
    lastEvent \in Breaks => currentSignal = "TRIGGERED" /\ lastTriggerTime = bzTimer

\* A BREAK outside market hours has armed the signal.
C5_Witness ==
    lastEvent \in Breaks /\ ~MarketHours(bzTimer) /\ currentSignal = "TRIGGERED"

\* C6: after a TREND END sample the position is FLAT and the signal IDLE.
C6_TrendEnd ==
    lastEvent = "TREND END" => currentPos = "POS_NONE" /\ currentSignal = "IDLE"

\* A TREND END has closed an open position.
C6_Witness ==
    lastEvent = "TREND END" /\ lastFire = "EXIT" /\ tradeCount = 1
        /\ currentPos = "POS_NONE" /\ currentSignal = "IDLE"

\* A step that calls closePosition(): a TREND END, or a confirmation against
\* the open position.
ClosingStep ==
    \/ lastEvent' = "TREND END"
    \/ lastFire' = "BUY" /\ currentPos = "POS_SHORT"
    \/ lastFire' = "SELL" /\ currentPos = "POS_LONG"

\* C7: a close adds lastPrice - entry (LONG) or entry - lastPrice (SHORT) to
\* closedPnL, where lastPrice is the price of the sample being processed, and
\* adds 1 to tradeCount; a TREND END leaves the position FLAT; a close while
\* FLAT changes nothing.
C7_CloseAccounting ==
    [][ /\ ClosingStep =>
              IF currentPos = "POS_LONG"
              THEN closedPnL' = closedPnL + (lastPrice' - tradeEntryPrice)
                     /\ tradeCount' = tradeCount + 1
              ELSE IF currentPos = "POS_SHORT"
              THEN closedPnL' = closedPnL + (tradeEntryPrice - lastPrice')
                     /\ tradeCount' = tradeCount + 1
              ELSE UNCHANGED book
        /\ lastEvent' = "TREND END" => currentPos' = "POS_NONE" /\ tradeEntryPrice' = 0
      ]_vars

\* A TREND END has closed the first trade at a price other than its entry.
C7_Witness ==
    lastEvent = "TREND END" /\ tradeCount = 1 /\ closedPnL # 0 /\ currentPos = "POS_NONE"

\* C8: a BUY leaves LONG and a SELL leaves SHORT; against the opposite
\* position it first realises that position at the sample's price and counts
\* the trade, then enters at the sample's price; in the same direction it
\* changes nothing of the book; from FLAT it enters at the sample's price.
C8_Flip ==
    [][ /\ lastFire' = "BUY" =>
              /\ currentPos' = "POS_LONG"
              /\ IF currentPos = "POS_SHORT"
                 THEN /\ closedPnL' = closedPnL + (tradeEntryPrice - lastPrice')
                      /\ tradeCount' = tradeCount + 1
                      /\ tradeEntryPrice' = lastPrice'
                 ELSE IF currentPos = "POS_LONG"
                 THEN UNCHANGED << tradeEntryPrice, closedPnL, tradeCount >>
                 ELSE tradeEntryPrice' = lastPrice' /\ UNCHANGED << closedPnL, tradeCount >>
        /\ lastFire' = "SELL" =>
              /\ currentPos' = "POS_SHORT"
              /\ IF currentPos = "POS_LONG"
                 THEN /\ closedPnL' = closedPnL + (lastPrice' - tradeEntryPrice)
                      /\ tradeCount' = tradeCount + 1
                      /\ tradeEntryPrice' = lastPrice'
                 ELSE IF currentPos = "POS_SHORT"
                 THEN UNCHANGED << tradeEntryPrice, closedPnL, tradeCount >>
                 ELSE tradeEntryPrice' = lastPrice' /\ UNCHANGED << closedPnL, tradeCount >>
      ]_vars

\* The fifth poll has confirmed against the position opened on the third:
\* one trade is counted, at a loss or gain, and the new position stands at
\* the sample's price.
C8_Witness ==
    polls = 5 /\ lastFire \in Fires /\ currentPos # "POS_NONE"
        /\ tradeCount = 1 /\ closedPnL # 0 /\ tradeEntryPrice = lastPrice

\* C9: a symbol switch leaves the book FLAT and zeroed, whatever was open,
\* and clears initialized, so that the next accepted sample seeds both EMAs
\* with its price.
C9_SwitchResets ==
    [][ /\ SwitchStep =>
              /\ currentPos' = "POS_NONE" /\ tradeEntryPrice' = 0
              /\ closedPnL' = 0 /\ tradeCount' = 0
              /\ ~initialized'
        /\ (~initialized /\ initialized') =>
              emaFast' = 100 * lastPrice' /\ emaSlow' = 100 * lastPrice' /\ diff' = 0
      ]_vars

\* The symbol was switched right after the third poll had confirmed and
\* opened a position (the stutter of its RUSH or DUMP is still pending): the
\* book is empty and no trade is counted.
C9_Witness ==
    polls = 3 /\ inputs = 1 /\ symbol # "SPY" /\ ~initialized
        /\ bzState = "BZ_STUTTER" /\ lastTriggerTime > 0
        /\ currentPos = "POS_NONE" /\ closedPnL = 0 /\ tradeCount = 0

\* C10 (as worded): a symbol switch leaves the signal IDLE.
C10_Claim == [][ SwitchStep => currentSignal' = "IDLE" ]_vars

\* A step whose poll handed a quote to processPrice.
SampleStep == lastFetch' = "SAMPLE"

\* C11: the first sample processed after start-up or a symbol switch sets
\* both EMAs to its price and the velocity to 0, sets initialized, and raises
\* no event: signal, trigger time, book and tone timer are as before, and the
\* tone state is what the tick of updateBuzzer at the head of the loop left.
C11_Seeding ==
    [][ (~initialized /\ SampleStep) =>
            /\ initialized'
            /\ emaFast' = Fixed(lastPrice') /\ emaSlow' = Fixed(lastPrice')
            /\ diff' = 0
            /\ lastEvent' = "NONE" /\ lastFire' = "NONE"
            /\ UNCHANGED << currentSignal, lastTriggerTime, book, bzTimer >>
            /\ bzState' = updateBuzzer(Eng).bzState
      ]_vars

\* The third poll has seeded the engine for the symbol switched to after the
\* second poll's BREAK: the velocity is back at 0 and the signal still armed.
C11_Witness ==
    polls = 3 /\ inputs = 1 /\ symbol # "SPY" /\ initialized /\ lastFetch = "SAMPLE"
        /\ diff = 0 /\ emaFast = Fixed(lastPrice) /\ emaSlow = Fixed(lastPrice)
        /\ currentSignal = "TRIGGERED"

\* C12: a poll whose quote is dropped (no WiFi, HTTP status other than 200,
\* unparsable body, price not above 0) leaves the EMAs, the velocity and its
\* history, initialized, the signal and the book as they were and raises
\* nothing; the poll timer has been restarted at the start of the attempt, and
\* every attempt began more than a whole interval after the one before.
C12_DroppedSample ==
    [][ /\ lastFetch' = "DROPPED" =>
              /\ UNCHANGED << lastPrice, emaFast, emaSlow, diff, initialized,
                              velocityHistory, historyHead, currentSignal, book >>
              /\ lastEvent' = "NONE" /\ lastFire' = "NONE"
              /\ lastPollMs' = now
        /\ lastFetch' # "NONE" => now - lastPollMs > getSmartInterval(Eng) * 1000
      ]_vars

\* A quote has been dropped while a position was open and the velocity was
\* off zero.
C12_Witness ==
    lastFetch = "DROPPED" /\ initialized /\ diff # 0 /\ historyHead = 2
        /\ currentPos # "POS_NONE"

\* A step in which loop() only ticked: no poll and no input, time has passed
\* and updateBuzzer has last run at the new time.
TickStep == lastFetch' = "NONE" /\ UNCHANGED inputs /\ now' # now

\* millis() at the last updateBuzzer call of a step of ticks: every step ends
\* with the delay(10) of its last iteration.
LastTick == now' - LoopDelayMs

\* Length of each tone sequence, ms.
Duration(bz) == IF bz = "BZ_BULL" THEN 200 ELSE IF bz = "BZ_BEAR" THEN 1000 ELSE 400

\* C13 (as worded): muted or not, a tick at or after the end of the pending
\* sequence returns the sequencer to BZ_IDLE.
C13_Original ==
    [][ (TickStep /\ bzState # "BZ_IDLE" /\ LastTick - bzTimer >= Duration(bzState)) =>
            bzState' = "BZ_IDLE"
      ]_vars

\* C13 (amended): while muted a tick leaves the tone state as it is, so a
\* pending sequence stays pending; while not muted a tick returns it to
\* BZ_IDLE exactly when the sequence's duration has elapsed.  The start
\* timestamp is never changed by a tick.
C13_MuteFreezes ==
    [][ TickStep =>
            /\ bzTimer' = bzTimer
            /\ bzState' = IF isMuted \/ bzState = "BZ_IDLE" THEN bzState
                          ELSE IF LastTick - bzTimer >= Duration(bzState) THEN "BZ_IDLE"
                          ELSE bzState
      ]_vars

\* Under mute, ticks have carried a pending sequence past its duration.
C13_Witness ==
    /\ isMuted /\ bzState # "BZ_IDLE"
    /\ now - LoopDelayMs - bzTimer >= Duration(bzState)
    /\ now - bzTimer < ToneHorizonMs

\* C14: the chop limit is above 0 after every sequence of profile selections,
\* '+' and '-' presses and chop= requests; in every such state a '-' that
\* would bring it to 0 or below, and a chop= value that is not above 0, leave
\* it as it is.
C14_ChopPositive ==
    /\ chopLimit > 0
    /\ chopLimit - 1 <= 0 => handleKeyboard(Eng, "-").chopLimit = chopLimit
    /\ \A c \in ConfigChops :
          c <= 0 => handleWebTraffic(Eng, Req({}, FALSE, FALSE, {c}, {})).chopLimit = chopLimit

\* Nine presses of '+' and '-' alone (no request, no profile change) have
\* brought the SPY limit from 10 to 2: one '-' at the floor was refused.
C14_Witness ==
    symbol = "SPY" /\ now = 150 + 2500 /\ inputs = 9 /\ chopLimit = 2

\* C15: a fetch starts at the instant the loop restarts the poll timer, more
\* than getSmartInterval() seconds, as evaluated at that instant, after the
\* start of the fetch before it, and it has returned before the step ends (the
\* loop makes no other call of fetchQuote meanwhile).
C15_PollPacing ==
    [][ lastFetch' # "NONE" =>
            /\ lastPollMs' = now
            /\ now' >= lastPollMs'
            /\ polls >= 1 =>
                  lastPollMs' - lastPollMs >
                      getSmartInterval([Eng EXCEPT !.now = lastPollMs']) * 1000
      ]_vars

\* The second fetch started after 11:00, where the interval is 4 s; the
\* first had started before 11:00 under the 2 s interval.
C15_Witness ==
    /\ polls = 2 /\ lastFetch # "NONE"
    /\ bootSec = 1 * 86400 + 10 * 3600 + 59 * 60 + 56
    /\ getSmartInterval([Eng EXCEPT !.now = lastPollMs]) = 4

\* The local time of day in minutes, and whether it is a weekday.
MinuteOfDay == 60 * getHour(Eng) + getMinute(Eng)
Weekday == getWeekday(Eng) \in 1 .. 5

\* C16 (as worded): on a weekday the interval is 60 s exactly before 08:00 and
\* from 16:00 on.
C16_Original ==
    Weekday => (getSmartInterval(Eng) = 60 <=> (MinuteOfDay < 8 * 60 \/ MinuteOfDay >= 16 * 60))

\* C16 (amended): on a weekday the interval is 60 s exactly before 08:30 and
\* from 16:00 on, and one of 2, 10, 4 s from 08:30 up to 15:59.
C16_OffHours ==
    Weekday =>
        /\ getSmartInterval(Eng) = 60 <=>
              (MinuteOfDay < 8 * 60 + 30 \/ MinuteOfDay >= 16 * 60)
        /\ (MinuteOfDay >= 8 * 60 + 30 /\ MinuteOfDay < 16 * 60) =>
              getSmartInterval(Eng) \in {2, 10, 4}

\* A weekday between 08:00 and 08:29, reached by a loop that has polled at the
\* 60 s interval.
C16_Witness ==
    /\ Weekday /\ polls >= 1 /\ now - lastPollMs > 60000
    /\ MinuteOfDay >= 8 * 60 /\ MinuteOfDay < 8 * 60 + 30
    /\ getSmartInterval(Eng) = 60

StatedEvents(prev, v, c) ==
    { e \in {"BULL BREAK", "BULL RUSH", "BEAR BREAK", "BEAR DUMP", "TREND END"} :
        \/ e = "BULL BREAK" /\ v > c /\ prev <= c
        \/ e = "BULL RUSH"  /\ v > c /\ prev > c /\ 5 * v > 6 * prev
        \/ e = "BEAR BREAK" /\ v < 0 - c /\ prev >= 0 - c
        \/ e = "BEAR DUMP"  /\ v < 0 - c /\ prev < 0 - c /\ 5 * v < 6 * prev
        \/ e = "TREND END"  /\ Abs(v) <= c /\ Abs(prev) > c }

AsSet(type) == IF type = "NONE" THEN {} ELSE {type}

\* The alert detection agrees with the stated predicates over a table of
\* velocities and chop limits.
ClassifierTable ==
    \A prev \in (0 - MaxVel) .. MaxVel, v \in (0 - MaxVel) .. MaxVel, c \in 1 .. MaxChop :
        /\ AsSet(classify(prev, v, c)) = StatedEvents(prev, v, c)
        /\ Cardinality(StatedEvents(prev, v, c)) <= 1

\* C18: the event of a non-seed sample is the one whose stated predicate
\* holds for the velocities before and after it, and none if none holds; at
\* most one holds.  Stated for the alert detection over a table of velocities
\* and chop limits, and for every sample the engine processes.
C18_EventPredicates ==
    [][ /\ ClassifierTable
        /\ (initialized /\ SampleStep) =>
              /\ AsSet(lastEvent') = StatedEvents(diff, diff', chopLimit)
              /\ Cardinality(StatedEvents(diff, diff', chopLimit)) <= 1
      ]_vars

\* A sample has left the velocity above the chop limit and raised no event:
\* the velocity was above it before and has not grown by a fifth.
C18_Witness ==
    initialized /\ lastFetch = "SAMPLE" /\ lastEvent = "NONE" /\ diff > chopLimit

\* BULL, BEAR and CHOP as stated, for velocity v and chop limit c.
StatedRegimes(v, c) ==
    { r \in {"BULL", "BEAR", "CHOP"} :
        \/ r = "BULL" /\ v > c
        \/ r = "BEAR" /\ v < 0 - c
        \/ r = "CHOP" /\ ~(v > c) /\ ~(v < 0 - c) }

\* The badge label agrees with the stated regimes over a table of velocities
\* and chop limits.
RegimeTable ==
    \A v \in (0 - MaxVel) .. MaxVel, c \in 1 .. MaxChop :
        /\ StatedRegimes(v, c) = {trendStr(v, c)}
        /\ trendStr(c, c) = "CHOP" /\ trendStr(0 - c, c) = "CHOP"

\* C19: the badge shows the one regime that holds of the velocity and the
\* chop limit, BULL above c, BEAR below -c, CHOP between and at c and -c
\* themselves.  Stated over a table of velocities and chop limits, and for
\* the velocity and limit of every state of the engine.
C19_RegimePartition ==
    /\ RegimeTable
    /\ StatedRegimes(diff, chopLimit) = {drawVelocityZone(Eng)}
    /\ Abs(diff) = chopLimit => drawVelocityZone(Eng) = "CHOP"

\* The velocity of a seeded engine stands exactly at the chop limit, on
\* either side.
C19_Witness ==
    initialized /\ lastPrice > 0 /\ Abs(diff) = chopLimit /\ drawVelocityZone(Eng) = "CHOP"

\* C20: while FLAT the entry price is 0; while LONG or SHORT it is the
\* positive price of the sample that opened the position: a step that opens
\* or flips a position is a sample and sets it to that sample's price, and a
\* step that leaves the position as it is leaves the entry price as it is.
C20_EntryPrice ==
    /\ currentPos = "POS_NONE" => tradeEntryPrice = 0
    /\ currentPos # "POS_NONE" => tradeEntryPrice > 0
    /\ [][ /\ (currentPos' # "POS_NONE" /\ currentPos' # currentPos) =>
                 SampleStep /\ tradeEntryPrice' = lastPrice' /\ lastPrice' > 0
           /\ currentPos' = currentPos => tradeEntryPrice' = tradeEntryPrice
         ]_vars

\* A later sample at another price, raising no alert, has left the entry
\* price of the open position where it was.
C20_Witness ==
    /\ currentPos # "POS_NONE" /\ lastFetch = "SAMPLE" /\ lastFire = "NONE"
    /\ tradeEntryPrice > 0 /\ tradeEntryPrice # lastPrice

\* ---------------------------------------------------------------- C21
\* The position closed by the step, valued at the price the sample brought.
RealisedPnL ==
    IF currentPos = "POS_LONG" THEN lastPrice' - tradeEntryPrice
    ELSE tradeEntryPrice - lastPrice'

\* C21: accumulated PnL bookkeeping.  A symbol switch sets tradeCount and
\* closedPnL to 0; every other step either leaves both unchanged, or closes
\* the open position, adding 1 to tradeCount and that trade's realised PnL to
\* closedPnL; tradeCount never decreases outside a switch.  closedPnL is
\* therefore the sum of the realised PnL of the tradeCount closes since the
\* last switch.
C21_PnLBookkeeping ==
    [][ /\ SwitchStep => (tradeCount' = 0 /\ closedPnL' = 0)
        /\ ~SwitchStep =>
              \/ tradeCount' = tradeCount /\ closedPnL' = closedPnL
              \/ /\ currentPos # "POS_NONE" /\ currentPos' # currentPos
                 /\ SampleStep
                 /\ tradeCount' = tradeCount + 1
                 /\ closedPnL' = closedPnL + RealisedPnL ]_vars

\* Two trades closed since the last switch, the sum being a net loss.
C21_Witness == tradeCount = 2 /\ closedPnL < 0

\* ---------------------------------------------------------------- C22
\* The closed trades the program keeps a record of.  closePosition adds the
\* trade to closedPnL and tradeCount and zeroes tradeEntryPrice; neither it
\* nor any other function stores the closed trade, and no global of the
\* sketch holds trade records (alertLog[5] holds event labels with their
\* velocity, and resetTrades leaves it alone).
tradeHistory == << >>

\* C22: the trade history holds the min(5, closes since the last reset) most
\* recent closed trades.
C22_Claim == Len(tradeHistory) = (IF tradeCount < 5 THEN tradeCount ELSE 5)

\* ---------------------------------------------------------------- C23
\* C23: velocity history ring.  historyHead stays in [0, HISTORY_SIZE); a
\* non-seed sample writes its velocity at historyHead, leaves the other
\* entries alone and advances historyHead by 1 modulo HISTORY_SIZE, so that
\* the read-out from historyHead drops its oldest entry and gains the new
\* velocity at the end; every other step (a seed sample included) leaves the
\* ring alone.  The read-out is therefore the HISTORY_SIZE most recent
\* velocities in arrival order.
C23_VelocityRing ==
    [][ /\ historyHead' \in 0 .. HISTORY_SIZE - 1
        /\ IF initialized /\ SampleStep
           THEN /\ velocityHistory' = [velocityHistory EXCEPT ![historyHead] = diff']
                /\ historyHead' = (historyHead + 1) % HISTORY_SIZE
                /\ historyJSON(Eng)' = Tail(historyJSON(Eng)) \o << diff' >>
           ELSE UNCHANGED << velocityHistory, historyHead >> ]_vars

\* The ring has wrapped: more than HISTORY_SIZE velocities have arrived, the
\* cursor is back inside the ring and the read-out ends with the latest one.
C23_Witness ==
    /\ polls > HISTORY_SIZE + 1
    /\ historyHead = polls - 1 - HISTORY_SIZE
    /\ historyJSON(Eng)[HISTORY_SIZE] = diff
    /\ \A i \in 0 .. HISTORY_SIZE - 1 : velocityHistory[i] # 0

\* ---------------------------------------------------------------- C24
\* The one tone of a single-tone sequence.
SingleTone(bz) ==
    IF bz = "BZ_BULL" THEN << 1000, DUR_BULLISH >> ELSE << 500, DUR_BEARISH >>

\* C24: single-tone sequences.  With mute off, a BZ_BULL (BZ_BEAR) sequence
\* that has returned to BZ_IDLE has made exactly one tone call, 1000 Hz for
\* 200 ms (500 Hz for 1000 ms), whenever its first tick came; and the ticks
\* of a step return it to BZ_IDLE exactly when the last of them is at or
\* after the duration.
C24_Claim ==
    [][ TickStep /\ ~isMuted /\ bzState \in {"BZ_BULL", "BZ_BEAR"}
        => /\ bzState' = "BZ_IDLE" <=> LastTick - bzTimer >= Duration(bzState)
           /\ bzState' = "BZ_IDLE" => bzTones' = << SingleTone(bzState) >>
      ]_vars

\* ---------------------------------------------------------------- C25
\* millis() at the updateBuzzer calls of a step of ticks.
TickTimes == { now + LoopDelayMs * k : k \in 0 .. ((now' - now) \div LoopDelayMs) - 1 }

\* The elapsed times that fall into one of the three tone slots.
InToneSlot(el) == el < 80 \/ (el >= 160 /\ el < 240) \/ (el >= 320 /\ el < 400)

ToneTicks == Cardinality({ t \in TickTimes : InToneSlot(t - bzTimer) })

C26_Claim ==
    /\ lastFire = "BUY" => lastBreak = "BULL BREAK"
    /\ lastFire = "SELL" => lastBreak = "BEAR BREAK"

FlipDown == initialized /\ SampleStep /\ diff > chopLimit /\ diff' < 0 - chopLimit'
FlipUp   == initialized /\ SampleStep /\ diff < 0 - chopLimit /\ diff' > chopLimit'

\* C28: a direct regime flip keeps the position.  A flip downwards logs BEAR
\* BREAK, a flip upwards BULL BREAK, never TREND END, and leaves the position,
\* its entry price, closedPnL and tradeCount as they are; an open position is
\* closed only by a confirmed opposite signal, a TREND END or a symbol switch.
C28_FlipKeepsPosition ==
    [][ /\ FlipDown => lastEvent' = "BEAR BREAK" /\ book' = book
        /\ FlipUp => lastEvent' = "BULL BREAK" /\ book' = book
        /\ (currentPos # "POS_NONE" /\ currentPos' # currentPos) =>
              \/ SwitchStep
              \/ lastEvent' = "TREND END"
              \/ currentPos = "POS_LONG" /\ lastFire' = "SELL"
              \/ currentPos = "POS_SHORT" /\ lastFire' = "BUY"
      ]_vars

\* A LONG that has gone through a flip downwards: the sample before the BEAR
\* BREAK was above the chop limit.
C28_Witness ==
    /\ lastEvent = "BEAR BREAK" /\ currentPos = "POS_LONG"
    /\ tradeEntryPrice > 0 /\ diff < 0 - chopLimit
    /\ velocityHistory[(historyHead + HISTORY_SIZE - 2) % HISTORY_SIZE] > chopLimit

LongestWindow == (2 * 300 + 2) * 1000

====
